---- MODULE Spec2Model ----
(***************************************************************************)
(* Model of streamlit_app.py: the Streamlit dashboard of the stock         *)
(* analysis system.  One behaviour is one browser session: a sequence of   *)
(* script runs (render cycles).  Each run executes the module-level        *)
(* session initialisation (lines 63-70), then main() (lines 73-101), which *)
(* dispatches to one of the five page functions.  A collaborator call is   *)
(* split in two steps (invocation, return) so that the state in which the  *)
(* call is in flight can be observed.                                      *)
(*                                                                         *)
(* Strings that the code inspects (stock codes, configuration keys and     *)
(* values) are sequences of one-character strings.  Return values of the   *)
(* Streamlit widgets and of the collaborators are inputs, drawn from the   *)
(* range of the widget or from a bounded family of results.                *)
(***************************************************************************)
EXTENDS Integers, Sequences, FiniteSets, TLC

VARIABLES
    session,        \* st.session_state: key -> 0 (key absent) or the instance stored
    ctorCalls,      \* per session key: how many times its constructor was called
    runs,           \* number of script runs started in this session
    pc,             \* position of the current script run
    initStep,       \* next assignment of the initialisation block (lines 66-70)
    crashed,        \* an exception left the script in the current run
    page,           \* value returned by st.sidebar.radio (line 80)
    view,           \* page function called by main()
    viewCalls,      \* number of page functions main() called in this run
    sessionAtStart, \* st.session_state when the current script run started
    sessionAtEntry, \* st.session_state when the page function was entered
    stock_code,     \* st.text_input value of the Analysis / Quote / History page
    submitted,      \* st.button value of the page
    checkbox,       \* st.checkbox value at line 318
    busy,           \* inside a `with st.spinner(...)` block
    inflight,       \* collaborator operation being executed, or NoOp
    calls,          \* collaborator operations invoked in this run, with argument
    results,        \* what each of them did: "raised", "empty" or "data"
    elements,       \* st.success / st.error / st.warning / st.info boxes, in order
    quote,          \* value returned by get_realtime_quote
    quoteShown,     \* text rendered for each quote field
    config_dict,    \* config_data["config"] returned by get_config
    configShown,    \* value of the disabled text_input rendered for each key
    tasks           \* value returned by list_tasks (sequence of statuses)

sessVars  == <<session, ctorCalls>>
inputVars == <<stock_code, submitted, checkbox>>
callVars  == <<busy, inflight, calls, results>>
outVars   == <<elements, quote, quoteShown, config_dict, configShown, tasks>>
vars == <<session, ctorCalls, runs, pc, initStep, crashed, page, view, viewCalls,
          sessionAtStart, sessionAtEntry, stock_code, submitted, checkbox, busy, inflight, calls,
          results, elements, quote, quoteShown, config_dict, configShown, tasks>>

----------------------------------------------------------------------------
(* Bounds of the model *)

MaxRuns == 3        \* script runs per session
MaxCodeLen == 2     \* length of the text typed into a stock-code input
MaxTasks == 2       \* tasks returned by list_tasks

----------------------------------------------------------------------------
(* Python helpers *)

\* bool(s) of a str: the empty string is falsy
Truthy(s) == Len(s) > 0

\* str.strip(): drop leading and trailing whitespace
RECURSIVE LStrip(_)
LStrip(s) == IF s # <<>> /\ Head(s) = " " THEN LStrip(Tail(s)) ELSE s

RECURSIVE RStrip(_)
RStrip(s) ==
    IF s # <<>> /\ s[Len(s)] = " " THEN RStrip(SubSeq(s, 1, Len(s) - 1)) ELSE s

Strip(s) == RStrip(LStrip(s))

\* `sub in s` of two str
Contains(sub, s) ==
    \E i \in 1..(Len(s) - Len(sub) + 1) : SubSeq(s, i, i + Len(sub) - 1) = sub

\* str.lower() on the characters that occur in the model
UpperCase == <<"A", "K", "P", "T">>
LowerCase == <<"a", "k", "p", "t">>
LowerChar(c) ==
    IF \E i \in 1..Len(UpperCase) : UpperCase[i] = c
    THEN LowerCase[CHOOSE i \in 1..Len(UpperCase) : UpperCase[i] = c]
    ELSE c
Lower(s) == [i \in 1..Len(s) |-> LowerChar(s[i])]

\* s[:n]
Prefix(s, n) == SubSeq(s, 1, IF Len(s) < n THEN Len(s) ELSE n)

\* what the user can type into a stock-code input
RECURSIVE StringsUpTo(_)
StringsUpTo(n) ==
    IF n = 0 THEN {<<>>}
    ELSE LET shorter == StringsUpTo(n - 1)
         IN  shorter \cup {Append(s, c) : s \in shorter, c \in {" ", "A"}}
Codes == StringsUpTo(MaxCodeLen)

----------------------------------------------------------------------------
(* Data: quotes (lines 296-315) and configuration (lines 402-419) *)

QuoteFields == {"current_price", "change", "change_percent", "open", "prev_close",
                "high", "low", "volume", "amount", "turnover_rate"}

\* a field of the returned dict: key absent, key present with None, or a number
FieldStates == {"absent", "null", "num"}

\* the fields formatted with :.2f at lines 298-300
FormattedFields == {"change", "change_percent"}

\* a Python dict is a function on the keys it holds; {} holds none
EmptyDict == <<>>

\* dict.get(key, default)
Get(dict, key, default) == IF key \in DOMAIN dict THEN dict[key] ELSE default

\* a configuration value: None, or a str
None == [kind |-> "none", s |-> <<>>]
Str(s) == [kind |-> "str", s |-> s]

\* lines 402-407: the keys of the four sections, in order
SectionKeys == <<"gemini_api_key", "openai_api_key", "openai_base_url", "openai_model",
                 "wechat_webhook_url", "feishu_webhook_url", "telegram_bot_token",
                 "tushare_token", "tavily_api_keys", "serpapi_keys", "stock_list">>
ConfigKeys == {SectionKeys[i] : i \in 1..Len(SectionKeys)}

\* the characters of each key
KeyChars ==
    [gemini_api_key |-> <<"g","e","m","i","n","i","_","a","p","i","_","k","e","y">>,
     openai_api_key |-> <<"o","p","e","n","a","i","_","a","p","i","_","k","e","y">>,
     openai_base_url |-> <<"o","p","e","n","a","i","_","b","a","s","e","_","u","r","l">>,
     openai_model |-> <<"o","p","e","n","a","i","_","m","o","d","e","l">>,
     wechat_webhook_url |->
        <<"w","e","c","h","a","t","_","w","e","b","h","o","o","k","_","u","r","l">>,
     feishu_webhook_url |->
        <<"f","e","i","s","h","u","_","w","e","b","h","o","o","k","_","u","r","l">>,
     telegram_bot_token |->
        <<"t","e","l","e","g","r","a","m","_","b","o","t","_","t","o","k","e","n">>,
     tushare_token |-> <<"t","u","s","h","a","r","e","_","t","o","k","e","n">>,
     tavily_api_keys |-> <<"t","a","v","i","l","y","_","a","p","i","_","k","e","y","s">>,
     serpapi_keys |-> <<"s","e","r","p","a","p","i","_","k","e","y","s">>,
     stock_list |-> <<"s","t","o","c","k","_","l","i","s","t">>]

----------------------------------------------------------------------------
(* Session state, lines 63-70 *)

SessionKeys == {"initialized", "config", "analysis_service", "history_service",
                "stock_service", "system_config_service"}

\* the assignments of lines 66-70, in order
InitOrder == <<"config", "analysis_service", "history_service",
               "stock_service", "system_config_service">>
HandleKeys == {InitOrder[i] : i \in 1..Len(InitOrder)}

\* `key in st.session_state`
Has(key) == session[key] # 0

\* line 64: if "initialized" not in st.session_state
InitNeededAlways == TRUE
InitNeeded == ~Has("initialized")

NoOp == "none"

\* the per-run variables at the start of a script run
CycleReset ==
    /\ crashed' = FALSE
    /\ page' = "" /\ view' = "none" /\ viewCalls' = 0
    /\ sessionAtStart' = session
    /\ sessionAtEntry' = session
    /\ stock_code' = <<>> /\ submitted' = FALSE /\ checkbox' = FALSE
    /\ busy' = FALSE /\ inflight' = NoOp /\ calls' = <<>> /\ results' = <<>>
    /\ elements' = <<>>
    /\ quote' = EmptyDict /\ quoteShown' = EmptyDict
    /\ config_dict' = EmptyDict /\ configShown' = EmptyDict
    /\ tasks' = <<>>

\* a script run starts (first load, or a rerun after a widget interaction)
ScriptStart ==
    /\ pc = "done"
    /\ runs < MaxRuns
    /\ runs' = runs + 1
    /\ CycleReset
    /\ pc' = IF InitNeeded THEN "init" ELSE "main"
    /\ initStep' = 0
    /\ UNCHANGED sessVars

\* line 65: st.session_state.initialized = True
SetInitialized ==
    /\ pc = "init" /\ initStep = 0
    /\ session' = [session EXCEPT !["initialized"] = 1]
    /\ initStep' = 1
    /\ UNCHANGED <<ctorCalls, runs, pc, crashed, page, view, viewCalls,
                   sessionAtStart, sessionAtEntry, inputVars, callVars, outVars>>

\* lines 66-70: one assignment st.session_state.<key> = <constructor>().
\* The constructor either returns a new instance or raises; an exception at
\* module level ends the script run, and what was stored so far stays stored.
Construct ==
    /\ pc = "init" /\ initStep \in 1..Len(InitOrder)
    /\ LET key == InitOrder[initStep] IN
       /\ ctorCalls' = [ctorCalls EXCEPT ![key] = @ + 1]
       /\ \/ /\ session' = [session EXCEPT ![key] = ctorCalls'[key]]
             /\ initStep' = initStep + 1
             /\ pc' = IF initStep = Len(InitOrder) THEN "main" ELSE "init"
             /\ UNCHANGED crashed
          \/ /\ crashed' = TRUE
             /\ pc' = "done"
             /\ UNCHANGED <<session, initStep>>
    /\ UNCHANGED <<runs, page, view, viewCalls, sessionAtStart, sessionAtEntry,
                   inputVars, callVars, outVars>>

----------------------------------------------------------------------------
(* main(), lines 73-101 *)

\* the five radio options of line 82, transliterated (the module is ASCII):
\* stock analysis, history, stock quote, task monitor, system configuration
Labels == <<"GuPiaoFenXi", "LiShiJiLu", "GuPiaoHangQing", "RenWuJianKong", "XiTongPeiZhi">>
LabelSet == {Labels[i] : i \in 1..Len(Labels)}

\* a selection that is not one of the five labels
OtherLabel == "QiTa"

\* lines 92-101: the if/elif chain; "none" when no branch is taken
RouteSwapped(p) ==
    IF p = "GuPiaoFenXi" THEN "history"
    ELSE IF p = "LiShiJiLu" THEN "analysis"
    ELSE IF p = "GuPiaoHangQing" THEN "quote"
    ELSE IF p = "RenWuJianKong" THEN "tasks"
    ELSE IF p = "XiTongPeiZhi" THEN "config"
    ELSE "none"
Route(p) ==
    IF p = "GuPiaoFenXi" THEN "analysis"
    ELSE IF p = "LiShiJiLu" THEN "history"
    ELSE IF p = "GuPiaoHangQing" THEN "quote"
    ELSE IF p = "RenWuJianKong" THEN "tasks"
    ELSE IF p = "XiTongPeiZhi" THEN "config"
    ELSE "none"

\* lines 80-101.  Line 88 reads st.session_state.config outside any try: a
\* missing key raises and the exception leaves the script.
MainOn(selections) ==
    /\ pc = "main"
    /\ \E p \in selections :
        /\ page' = p
        /\ IF ~Has("config")
           THEN /\ crashed' = TRUE
                /\ pc' = "done"
                /\ UNCHANGED <<view, viewCalls>>
           ELSE /\ view' = Route(p)
                /\ viewCalls' = IF Route(p) = "none" THEN 0 ELSE 1
                /\ pc' = IF Route(p) = "none" THEN "done" ELSE "view"
                /\ UNCHANGED crashed
    /\ sessionAtEntry' = session
    /\ UNCHANGED <<sessVars, runs, initStep, sessionAtStart, inputVars, callVars,
                   outVars>>

\* main() with the radio of lines 80-84, which returns one of its five options
Main == MainOn(LabelSet)

\* main() called with any selection: the dispatch of lines 92-101 as a
\* function of `page`, as a caller that replaces the radio would drive it
MainAnySelection == MainOn(LabelSet \cup {OtherLabel})

----------------------------------------------------------------------------
(* Collaborator calls *)

Arg(s) == [none |-> FALSE, s |-> s]
NoArg  == [none |-> TRUE, s |-> <<>>]

\* one synchronous call of a collaborator operation
InvokeTwice(op, arg) == calls \o <<[op |-> op, arg |-> arg], [op |-> op, arg |-> arg]>>
Invoke(op, arg) == Append(calls, [op |-> op, arg |-> arg])

\* leaving the `with st.spinner(...)` block, by return or by exception
SpinnerExitLeak(raised) == IF raised THEN busy ELSE FALSE
SpinnerExit(raised) == FALSE

----------------------------------------------------------------------------
(* show_analysis_page(), lines 104-199 *)

\* values analyze_stock can produce: an exception, a falsy result (None or an
\* empty dict), or a dict whose "report" is absent, a markdown string or a dict
AnalysisOutcomes ==
    {[kind |-> k, report |-> "absent", summary |-> FALSE, advice |-> FALSE,
      buy |-> FALSE, sell |-> FALSE, trend |-> FALSE] : k \in {"raised", "falsy", "data"}}
    \cup
    {[kind |-> "data", report |-> "text", summary |-> FALSE, advice |-> FALSE,
      buy |-> FALSE, sell |-> FALSE, trend |-> FALSE]}
    \cup
    {[kind |-> "data", report |-> "dict", summary |-> sm, advice |-> TRUE,
      buy |-> b, sell |-> sl, trend |-> t] : sm, b, sl, t \in BOOLEAN}
    \cup
    {[kind |-> "data", report |-> "dict", summary |-> sm, advice |-> FALSE,
      buy |-> FALSE, sell |-> FALSE, trend |-> t] : sm, t \in BOOLEAN}

\* lines 166-171: the buy token is looked for before the sell token
AdviceBox(r) == IF r.buy THEN "success" ELSE IF r.sell THEN "error" ELSE "warning"

\* lines 148-195: the boxes rendered for a returned result
AnalysisBoxes(r) ==
    IF r.kind = "data"
    THEN <<"success">>
         \o (IF r.report = "dict" /\ r.summary THEN <<"info">> ELSE <<>>)
         \o (IF r.report = "dict" /\ r.advice THEN <<AdviceBox(r)>> ELSE <<>>)
         \o (IF r.report = "dict" /\ r.trend THEN <<"info">> ELSE <<>>)
    ELSE <<"error">>

\* lines 106-146: the form, the validation and the invocation
ShowAnalysis ==
    /\ pc = "view" /\ view = "analysis"
    /\ \E code \in Codes, button \in BOOLEAN :
        /\ stock_code' = code
        /\ submitted' = button
        /\ IF ~button
           THEN /\ pc' = "done"
                /\ UNCHANGED <<callVars, elements>>
           ELSE IF ~Truthy(code)
           THEN \* lines 133-135
                /\ elements' = <<"error">>
                /\ pc' = "done"
                /\ UNCHANGED callVars
           ELSE IF ~Has("analysis_service")
           THEN \* line 140 raises AttributeError inside the try: lines 197-199
                /\ elements' = <<"error">>
                /\ busy' = SpinnerExit(TRUE)
                /\ pc' = "done"
                /\ UNCHANGED <<inflight, calls, results>>
           ELSE /\ busy' = TRUE
                /\ inflight' = "analyze_stock"
                /\ calls' = Invoke("analyze_stock", Arg(Strip(code)))
                /\ pc' = "call"
                /\ UNCHANGED <<results, elements>>
    /\ UNCHANGED <<sessVars, runs, initStep, crashed, page, view, viewCalls,
                   sessionAtStart, sessionAtEntry, checkbox, quote, quoteShown, config_dict,
                   configShown, tasks>>

\* lines 148-199: analyze_stock returns or raises
AnalyzeReturns ==
    /\ pc = "call" /\ inflight = "analyze_stock"
    /\ \E r \in AnalysisOutcomes :
        /\ results' = Append(results, IF r.kind = "falsy" THEN "empty" ELSE r.kind)
        /\ elements' = elements \o AnalysisBoxes(r)
        /\ busy' = SpinnerExit(r.kind = "raised")
    /\ inflight' = NoOp
    /\ pc' = "done"
    /\ UNCHANGED <<sessVars, runs, initStep, crashed, page, view, viewCalls,
                   sessionAtStart, sessionAtEntry, inputVars, calls, quote, quoteShown,
                   config_dict, configShown, tasks>>

----------------------------------------------------------------------------
(* show_history_page(), lines 202-266 *)

\* values get_history_list can produce: an exception, None, a dict without
\* "items", a dict with an empty "items", a dict with records
HistoryOutcomes == {"raised", "none", "no_items_key", "empty_items", "items"}

\* line 229: result and "items" in result and result["items"]
HistoryHasItems(r) == r = "items"

\* lines 229-266: the box rendered for an outcome
HistoryBoxAsError(r) ==
    IF r = "raised" THEN "error" ELSE IF HistoryHasItems(r) THEN "success" ELSE "error"
HistoryBox(r) ==
    IF r = "raised" THEN "error" ELSE IF HistoryHasItems(r) THEN "success" ELSE "info"

\* lines 204-227
ShowHistory ==
    /\ pc = "view" /\ view = "history"
    /\ \E code \in Codes, button \in BOOLEAN :
        /\ stock_code' = code
        /\ submitted' = button
        /\ IF ~button
           THEN /\ pc' = "done"
                /\ UNCHANGED <<callVars, elements>>
           ELSE IF ~Has("history_service")
           THEN \* line 222 raises AttributeError inside the try: lines 264-266
                /\ elements' = <<"error">>
                /\ busy' = SpinnerExit(TRUE)
                /\ pc' = "done"
                /\ UNCHANGED <<inflight, calls, results>>
           ELSE /\ busy' = TRUE
                /\ inflight' = "get_history_list"
                /\ calls' = Invoke("get_history_list",
                                   IF Truthy(code) THEN Arg(Strip(code)) ELSE NoArg)
                /\ pc' = "call"
                /\ UNCHANGED <<results, elements>>
    /\ UNCHANGED <<sessVars, runs, initStep, crashed, page, view, viewCalls,
                   sessionAtStart, sessionAtEntry, checkbox, quote, quoteShown, config_dict,
                   configShown, tasks>>

\* lines 229-266: get_history_list returns or raises
HistoryReturns ==
    /\ pc = "call" /\ inflight = "get_history_list"
    /\ \E r \in HistoryOutcomes :
        /\ results' = Append(results, IF r = "raised" THEN "raised"
                                      ELSE IF HistoryHasItems(r) THEN "data"
                                      ELSE "empty")
        /\ elements' = Append(elements, HistoryBox(r))
        /\ busy' = SpinnerExit(r = "raised")
    /\ inflight' = NoOp
    /\ pc' = "done"
    /\ UNCHANGED <<sessVars, runs, initStep, crashed, page, view, viewCalls,
                   sessionAtStart, sessionAtEntry, inputVars, calls, quote, quoteShown,
                   config_dict, configShown, tasks>>

----------------------------------------------------------------------------
(* show_stock_quote_page(), lines 269-335 *)

\* values get_realtime_quote can return: dicts that hold each field with a
\* number, hold it with None, or do not hold it.  The four fields of the
\* first row vary independently, the six fields below them vary together.
FieldState(f, a, b, c, d, e) ==
    CASE f = "current_price"  -> a
      [] f = "change"         -> b
      [] f = "change_percent" -> c
      [] f = "open"           -> d
      [] OTHER                -> e
Quotes ==
    {[f \in {g \in QuoteFields : FieldState(g, a, b, c, d, e) # "absent"} |->
        FieldState(f, a, b, c, d, e)] : a, b, c, d, e \in FieldStates}

\* line 289: `if quote:`; None and the empty dict are falsy
QuoteTruthy(q) == DOMAIN q # {}

\* f"{quote.get(f, 'N/A')}" (lines 296, 302-315), and quote.get(f, 0)
\* formatted with :.2f (lines 298-300)
FieldText(q, f) ==
    IF f \in FormattedFields
    THEN IF Get(q, f, "zero") = "zero" THEN "0.00" ELSE "num"
    ELSE IF Get(q, f, "N/A") = "null" THEN "None" ELSE Get(q, f, "N/A")

\* line 300: format(None, ".2f") raises TypeError
FormatRaises(q) == \E f \in FormattedFields : Get(q, f, "zero") = "null"

\* lines 271-287
ShowQuote ==
    /\ pc = "view" /\ view = "quote"
    /\ \E code \in Codes, button \in BOOLEAN :
        /\ stock_code' = code
        /\ submitted' = button
        /\ IF ~button
           THEN /\ pc' = "done"
                /\ UNCHANGED <<callVars, elements>>
           ELSE IF ~Truthy(code)
           THEN \* lines 281-283
                /\ elements' = <<"error">>
                /\ pc' = "done"
                /\ UNCHANGED callVars
           ELSE IF ~Has("stock_service")
           THEN \* line 287 raises AttributeError inside the try: lines 333-335
                /\ elements' = <<"error">>
                /\ busy' = SpinnerExit(TRUE)
                /\ pc' = "done"
                /\ UNCHANGED <<inflight, calls, results>>
           ELSE /\ busy' = TRUE
                /\ inflight' = "get_realtime_quote"
                /\ calls' = Invoke("get_realtime_quote", Arg(Strip(code)))
                /\ pc' = "call"
                /\ UNCHANGED <<results, elements>>
    /\ UNCHANGED <<sessVars, runs, initStep, crashed, page, view, viewCalls,
                   sessionAtStart, sessionAtEntry, checkbox, quote, quoteShown, config_dict,
                   configShown, tasks>>

\* lines 289-335: get_realtime_quote raises
QuoteRaises ==
    /\ pc = "call" /\ inflight = "get_realtime_quote"
    /\ results' = Append(results, "raised")
    /\ elements' = Append(elements, "error")
    /\ busy' = SpinnerExit(TRUE)
    /\ inflight' = NoOp
    /\ pc' = "done"
    /\ UNCHANGED <<sessVars, runs, initStep, crashed, page, view, viewCalls,
                   sessionAtStart, sessionAtEntry, inputVars, calls, quote, quoteShown,
                   config_dict, configShown, tasks>>

\* lines 289-335: get_realtime_quote returns q; the checkbox of line 318 is
\* read when the rendering of the fields got that far
QuoteReturns ==
    /\ pc = "call" /\ inflight = "get_realtime_quote"
    /\ \E q \in Quotes, c \in BOOLEAN :
        /\ quote' = q
        /\ IF ~QuoteTruthy(q)
           THEN \* line 331
                /\ results' = Append(results, "empty")
                /\ elements' = Append(elements, "error")
                /\ UNCHANGED <<quoteShown, checkbox, calls>>
                /\ busy' = SpinnerExit(FALSE)
                /\ inflight' = NoOp
                /\ pc' = "done"
           ELSE IF FormatRaises(q)
           THEN \* line 296 rendered, line 300 raises: lines 333-335
                /\ results' = Append(results, "data")
                /\ elements' = elements \o <<"success", "error">>
                /\ quoteShown' = [f \in {"current_price"} |-> FieldText(q, f)]
                /\ UNCHANGED <<checkbox, calls>>
                /\ busy' = SpinnerExit(TRUE)
                /\ inflight' = NoOp
                /\ pc' = "done"
           ELSE /\ results' = Append(results, "data")
                /\ elements' = Append(elements, "success")
                /\ quoteShown' = [f \in QuoteFields |-> FieldText(q, f)]
                /\ checkbox' = c
                /\ IF c
                   THEN \* lines 320-324, still inside the spinner
                        /\ inflight' = "get_history_data"
                        /\ calls' = Invoke("get_history_data", Arg(Strip(stock_code)))
                        /\ UNCHANGED <<busy, pc>>
                   ELSE /\ busy' = SpinnerExit(FALSE)
                        /\ inflight' = NoOp
                        /\ pc' = "done"
                        /\ UNCHANGED calls
    /\ UNCHANGED <<sessVars, runs, initStep, crashed, page, view, viewCalls,
                   sessionAtStart, sessionAtEntry, stock_code, submitted, config_dict,
                   configShown, tasks>>

\* values get_history_data can produce: an exception, a falsy or data-less
\* result, rows with "date" and "close", rows without one of these columns
HistoryDataOutcomes == {"raised", "none", "data", "baddata"}

\* lines 325-329: the inner try; a failure is rendered as a warning
HistoryDataBoxesAsError(r) == IF r \in {"raised", "baddata"} THEN <<"error">> ELSE <<>>
HistoryDataBoxes(r) == IF r \in {"raised", "baddata"} THEN <<"warning">> ELSE <<>>

HistoryDataReturns ==
    /\ pc = "call" /\ inflight = "get_history_data"
    /\ \E r \in HistoryDataOutcomes :
        /\ results' = Append(results, IF r = "raised" THEN "raised"
                                      ELSE IF r = "none" THEN "empty" ELSE "data")
        /\ elements' = elements \o HistoryDataBoxes(r)
    /\ busy' = SpinnerExit(FALSE)
    /\ inflight' = NoOp
    /\ pc' = "done"
    /\ UNCHANGED <<sessVars, runs, initStep, crashed, page, view, viewCalls,
                   sessionAtStart, sessionAtEntry, inputVars, calls, quote, quoteShown,
                   config_dict, configShown, tasks>>

----------------------------------------------------------------------------
(* show_task_monitor_page(), lines 338-384 *)

TaskStatuses == {"running", "completed", "failed", "pending"}

RECURSIVE TaskSeqs(_)
TaskSeqs(n) ==
    IF n = 0 THEN {<<>>}
    ELSE LET shorter == TaskSeqs(n - 1)
         IN  shorter \cup {Append(t, st) : t \in shorter, st \in TaskStatuses}
TaskLists == TaskSeqs(MaxTasks)

\* lines 354-359: the distinct statuses, in the order they are first seen
RECURSIVE StatusOrder(_)
StatusOrder(ts) ==
    IF ts = <<>> THEN <<>>
    ELSE LET before == StatusOrder(SubSeq(ts, 1, Len(ts) - 1))
             last == ts[Len(ts)]
         IN  IF \E i \in 1..Len(before) : before[i] = last
             THEN before ELSE Append(before, last)

\* lines 371-378: the badge of one task
Badge(st) ==
    CASE st = "running"   -> "warning"
      [] st = "completed" -> "success"
      [] st = "failed"    -> "error"
      [] OTHER            -> "info"

\* lines 362-378: the badges, group by group, input order within a group
RECURSIVE GroupBadges(_, _)
GroupBadges(ts, st) ==
    IF ts = <<>> THEN <<>>
    ELSE (IF Head(ts) = st THEN <<Badge(st)>> ELSE <<>>) \o GroupBadges(Tail(ts), st)

RECURSIVE AllBadges(_, _)
AllBadges(ts, order) ==
    IF order = <<>> THEN <<>>
    ELSE GroupBadges(ts, Head(order)) \o AllBadges(ts, Tail(order))

\* lines 350-380: the boxes rendered for the returned list
TaskBoxes(ts) ==
    IF ts # <<>> THEN <<"success">> \o AllBadges(ts, StatusOrder(ts)) ELSE <<"info">>

\* lines 340-348.  The refresh button calls st.rerun(), which stops this run;
\* get_task_queue() is inside the try.  There is no spinner on this page.
ShowTaskMonitor ==
    /\ pc = "view" /\ view = "tasks"
    /\ \E button \in BOOLEAN, queueOk \in BOOLEAN :
        /\ submitted' = button
        /\ IF button
           THEN /\ pc' = "done"
                /\ UNCHANGED <<callVars, elements>>
           ELSE IF ~queueOk
           THEN \* line 347 raises: lines 382-384
                /\ elements' = <<"error">>
                /\ pc' = "done"
                /\ UNCHANGED callVars
           ELSE /\ inflight' = "list_tasks"
                /\ calls' = Invoke("list_tasks", NoArg)
                /\ pc' = "call"
                /\ UNCHANGED <<busy, results, elements>>
    /\ UNCHANGED <<sessVars, runs, initStep, crashed, page, view, viewCalls,
                   sessionAtStart, sessionAtEntry, stock_code, checkbox, quote, quoteShown,
                   config_dict, configShown, tasks>>

\* lines 350-384: list_tasks returns or raises
ListTasksReturns ==
    /\ pc = "call" /\ inflight = "list_tasks"
    /\ \E raised \in BOOLEAN, ts \in TaskLists :
        /\ tasks' = IF raised THEN <<>> ELSE ts
        /\ results' = Append(results, IF raised THEN "raised"
                                      ELSE IF ts = <<>> THEN "empty" ELSE "data")
        /\ elements' = IF raised THEN <<"error">> ELSE TaskBoxes(ts)
    /\ inflight' = NoOp
    /\ pc' = "done"
    /\ UNCHANGED <<sessVars, runs, initStep, crashed, page, view, viewCalls,
                   sessionAtStart, sessionAtEntry, inputVars, busy, calls, quote, quoteShown,
                   config_dict, configShown>>

----------------------------------------------------------------------------
(* show_config_page(), lines 387-427 *)

\* line 415: the substrings that make a key sensitive
PatApiKey == <<"a","p","i","_","k","e","y">>
PatToken == <<"t","o","k","e","n">>
PatPassword == <<"p","a","s","s","w","o","r","d">>

\* line 416: number of characters of a secret that stay visible
MaskPrefixLen == 8
Ellipsis == <<".", ".", ".">>
MaskToken == <<"*", "*", "*">>

\* line 415
Sensitive(key) ==
    \/ Contains(PatApiKey, Lower(key))
    \/ Contains(PatToken, Lower(key))
    \/ Contains(PatPassword, Lower(key))

\* line 416: f"{value[:8]}..." if value and len(value) > 8 else "***"
MaskSecretOffByOne(value) ==
    IF value.kind = "str" /\ Truthy(value.s) /\ Len(value.s) >= MaskPrefixLen
    THEN Str(Prefix(value.s, MaskPrefixLen) \o Ellipsis)
    ELSE Str(MaskToken)
MaskSecret(value) ==
    IF value.kind = "str" /\ Truthy(value.s) /\ Len(value.s) > MaskPrefixLen
    THEN Str(Prefix(value.s, MaskPrefixLen) \o Ellipsis)
    ELSE Str(MaskToken)

\* lines 412-419: the value of the text_input rendered for a key
DisplayValue(key, value) ==
    IF Sensitive(KeyChars[key]) THEN MaskSecret(value) ELSE value

\* values a configuration entry can take
SampleSecret == <<"s","k","-","1","2","3","4","5","6","7","8","9","0">>
ConfigValues == {None, Str(<<>>), Str(<<"k">>), Str(Prefix(SampleSecret, 8)),
                 Str(Prefix(SampleSecret, 9)), Str(SampleSecret)}

\* the dicts get_config can return under "config": one value for the keys at
\* odd positions of the section table, one for those at even positions, and
\* at most one key left out
NoKey == ""
ConfigDicts ==
    {[k \in ConfigKeys \ {k0} |->
        IF (CHOOSE i \in 1..Len(SectionKeys) : SectionKeys[i] = k) % 2 = 1
        THEN v ELSE w] : v \in ConfigValues, w \in ConfigValues,
                         k0 \in ConfigKeys \cup {NoKey}}

\* lines 389-394.  There is no spinner on this page.
ShowConfig ==
    /\ pc = "view" /\ view = "config"
    /\ IF ~Has("system_config_service")
       THEN \* line 393 raises AttributeError inside the try: lines 425-427
            /\ elements' = <<"error">>
            /\ pc' = "done"
            /\ UNCHANGED callVars
       ELSE /\ inflight' = "get_config"
            /\ calls' = Invoke("get_config", NoArg)
            /\ pc' = "call"
            /\ UNCHANGED <<busy, results, elements>>
    /\ UNCHANGED <<sessVars, runs, initStep, crashed, page, view, viewCalls,
                   sessionAtStart, sessionAtEntry, inputVars, quote, quoteShown, config_dict,
                   configShown, tasks>>

\* lines 396-427: get_config raises, or returns nothing usable (None, or a
\* dict without "config")
ConfigBox(r) == IF r = "raised" THEN "error" ELSE "warning"

GetConfigFails ==
    /\ pc = "call" /\ inflight = "get_config"
    /\ \E r \in {"raised", "none"} :
        /\ results' = Append(results, IF r = "raised" THEN "raised" ELSE "empty")
        /\ elements' = Append(elements, ConfigBox(r))
    /\ inflight' = NoOp
    /\ pc' = "done"
    /\ UNCHANGED <<sessVars, runs, initStep, crashed, page, view, viewCalls,
                   sessionAtStart, sessionAtEntry, inputVars, busy, calls, quote, quoteShown,
                   config_dict, configShown, tasks>>

\* lines 396-421: get_config returns a dict with "config"
GetConfigReturns ==
    /\ pc = "call" /\ inflight = "get_config"
    /\ \E d \in ConfigDicts :
        /\ config_dict' = d
        /\ configShown' = [k \in ConfigKeys \cap DOMAIN d |-> DisplayValue(k, d[k])]
    /\ results' = Append(results, "data")
    /\ elements' = Append(elements, "info")
    /\ inflight' = NoOp
    /\ pc' = "done"
    /\ UNCHANGED <<sessVars, runs, initStep, crashed, page, view, viewCalls,
                   sessionAtStart, sessionAtEntry, inputVars, busy, calls, quote, quoteShown, tasks>>

----------------------------------------------------------------------------
(* The session *)

Init ==
    /\ session = [k \in SessionKeys |-> 0]
    /\ ctorCalls = [k \in HandleKeys |-> 0]
    /\ runs = 0
    /\ pc = "done"
    /\ initStep = 0
    /\ crashed = FALSE
    /\ page = "" /\ view = "none" /\ viewCalls = 0
    /\ sessionAtStart = session
    /\ sessionAtEntry = session
    /\ stock_code = <<>> /\ submitted = FALSE /\ checkbox = FALSE
    /\ busy = FALSE /\ inflight = NoOp /\ calls = <<>> /\ results = <<>>
    /\ elements = <<>>
    /\ quote = EmptyDict /\ quoteShown = EmptyDict
    /\ config_dict = EmptyDict /\ configShown = EmptyDict
    /\ tasks = <<>>

SessionSteps ==
    \/ ScriptStart
    \/ SetInitialized
    \/ Construct

PageSteps ==
    \/ ShowAnalysis
    \/ AnalyzeReturns
    \/ ShowHistory
    \/ HistoryReturns
    \/ ShowQuote
    \/ QuoteRaises
    \/ QuoteReturns
    \/ HistoryDataReturns
    \/ ShowTaskMonitor
    \/ ListTasksReturns
    \/ ShowConfig
    \/ GetConfigFails
    \/ GetConfigReturns

Next == SessionSteps \/ Main \/ PageSteps

Spec == Init /\ [][Next]_vars

\* the session with the dispatch of main() driven by any selection
RouteNext == SessionSteps \/ MainAnySelection \/ PageSteps
RouteSpec == Init /\ [][RouteNext]_vars

----------------------------------------------------------------------------
(* Properties *)

\* the views the five labels stand for, in the order of the labels
Views == <<"analysis", "history", "quote", "tasks", "config">>
ExpectedView(p) == Views[CHOOSE i \in 1..Len(Labels) : Labels[i] = p]

Raised(i) == i \in 1..Len(results) /\ results[i] = "raised"
Empty(i) == i \in 1..Len(results) /\ results[i] = "empty"
Has_(box) == \E i \in 1..Len(elements) : elements[i] = box

\* the session was initialised completely
SessionComplete == \A k \in SessionKeys : Has(k)

\* a run on a complete session in which the stock code entered, if any, is
\* not blank
Nominal == SessionComplete /\ (stock_code = <<>> \/ Strip(stock_code) # <<>>)

\* C1: in the Analysis and the Quote view, a submitted stock code that is
\* empty or only whitespace gives the validation error and no collaborator
\* call in that render cycle.
C1_BlankCodeRejected ==
    (SessionComplete /\ view \in {"analysis", "quote"} /\ submitted
     /\ Strip(stock_code) = <<>>)
        => (elements = <<"error">> /\ calls = <<>> /\ inflight = NoOp)

NoDataBox(v) ==
    CASE v = "analysis" -> "error"
      [] v = "quote"    -> "error"
      [] v = "history"  -> "info"
      [] v = "tasks"    -> "info"
      [] v = "config"   -> "warning"

C4_InitIdempotent ==
    /\ \A k \in HandleKeys : ctorCalls[k] <= 1
    /\ sessionAtStart["initialized"] # 0 => session = sessionAtStart

C4_Witness ==
    /\ runs >= 2 /\ pc = "done" /\ view # "none"
    /\ sessionAtStart["initialized"] # 0
    /\ \A k \in HandleKeys : ctorCalls[k] = 1 /\ Has(k)

C7_MissingFieldsShownAsNA ==
    (view = "quote" /\ pc = "done" /\ Nominal
     /\ Len(results) >= 1 /\ results[1] = "data")
        => /\ elements[1] = "success"
           /\ ~Has_("error")
           /\ \A f \in QuoteFields :
                /\ f \in DOMAIN quoteShown
                /\ Get(quote, f, "null") = "null" => quoteShown[f] = "N/A"

C10_InitializedImpliesHandles ==
    (Has("initialized") /\ pc # "init") => \A k \in HandleKeys : Has(k)

====
